---------------------------- MODULE Spec2Model ----------------------------
(***************************************************************************)
(* A model of poesy-maker's document segmentation and poem-record          *)
(* extraction (parser.py) and of its bounded-retry audio generation        *)
(* (tts.py).                                                               *)
(*                                                                         *)
(* A Python str is a sequence of characters; a character is a one-letter   *)
(* string ("a", " ", "\n"), and a non-ASCII code point is named by its     *)
(* code ("U+00E9").  None stands for Python's None where a text may be     *)
(* absent: a sequence that is no text, its one element being no character. *)
(* What a call gives is a record: the dict it returned, ReturnsNone when   *)
(* it returned None, RaisesIndexError when it raised.                      *)
(***************************************************************************)
EXTENDS Integers, Sequences, FiniteSets, TLC

VARIABLES
    pc,         \* position of the operation being modelled
    title,      \* slugify: the text given
    slug,       \* slugify: the result
    slug2,      \* slugify: the result of slugifying the result
    raw,        \* parse_poem_chunk: the chunk given
    parsed,     \* parse_poem_chunk: what the call gave
    text,       \* split_poems, fetch_and_parse: the document text
    primary,    \* split_poems: chunks after the split on underscore lines
    idx,        \* split_poems, fetch_and_parse: 1-based position of the loop
    chunk,      \* _split_on_trailing_author: the chunk last given
    sub,        \* _split_on_trailing_author: what it returned for chunk
    chunks,     \* split_poems: result
    overrides,  \* fetch_and_parse: the override map, slug -> author
    poems,      \* fetch_and_parse: the records emitted so far
    plain,      \* the records the same run emits with an empty override map
    mp3s,       \* generate_audio: the poems whose MP3 file exists
    poem,       \* generate_audio: the poem given
    force,      \* generate_audio: the force flag given
    existed,    \* generate_audio: output_path.exists() when the call began
    attempt,    \* generate_audio: the retry loop's variable
    tts_calls,  \* generate_audio: conversions asked of the TTS client in this call
    waits,      \* generate_audio: the seconds slept in this call, in order
    tag_done,   \* generate_audio: whether this call has tagged the file
    invocations \* how many calls of generate_audio have begun

vars == <<pc, title, slug, slug2, raw, parsed, text, primary, idx, chunk, sub, chunks,
          overrides, poems, plain, mp3s, poem, force, existed, attempt, tts_calls,
          waits, tag_done, invocations>>

slugVars == <<title, slug, slug2>>
parseVars == <<raw, parsed>>
splitVars == <<text, primary, idx, chunk, sub, chunks>>
fetchVars == <<overrides, poems, plain>>
ttsVars == <<mp3s, poem, force, existed, attempt, tts_calls, waits, tag_done, invocations>>

None == <<"None">>
ReturnsNone == [returns |-> "None"]
RaisesIndexError == [raises |-> "IndexError"]

(***************************************************************************)
(* Characters                                                              *)
(***************************************************************************)
UpperCase == <<"A","B","C","D","E","F","G","H","I","J","K","L","M","N","O","P","Q","R","S","T","U","V","W","X","Y","Z">>

LowerCase == <<"a","b","c","d","e","f","g","h","i","j","k","l","m","n","o","p","q","r","s","t","u","v","w","x","y","z">>

Digits == <<"0","1","2","3","4","5","6","7","8","9">>

Range(f) == {f[k] : k \in DOMAIN f}

\* The code points above U+007F that the model's texts draw from:
\* e with acute, the combining acute accent, a CJK ideograph.
NonAscii == {"U+00E9", "U+0301", "U+4E2D"}

\* What str.strip() and the regex class \s take for white space.
WhiteSpace == {" ", "\t", "\n", "\r"}

IsBlank(s) == \A k \in DOMAIN s : s[k] \in WhiteSpace

\* str.strip(): the text without its leading and trailing white space.
Strip(s) ==
    IF IsBlank(s) THEN <<>>
    ELSE LET a == CHOOSE k \in DOMAIN s :
                    s[k] \notin WhiteSpace /\ \A j \in 1..(k-1) : s[j] \in WhiteSpace
             b == CHOOSE k \in DOMAIN s :
                    s[k] \notin WhiteSpace /\ \A j \in (k+1)..Len(s) : s[j] \in WhiteSpace
         IN  SubSeq(s, a, b)

(***************************************************************************)
(* slugify (parser.py)                                                     *)
(***************************************************************************)
\* unicodedata.normalize("NFKD", text), one character: e-acute decomposes
\* into e and the combining accent, every other character of the model is
\* its own decomposition.
NFKDChar(c) == IF c = "U+00E9" THEN <<"e", "U+0301">> ELSE <<c>>

RECURSIVE NFKD(_)
NFKD(s) == IF s = <<>> THEN <<>> ELSE NFKDChar(Head(s)) \o NFKD(Tail(s))

\* text.encode("ascii", "ignore").decode("ascii"): non-ASCII dropped.
AsciiIgnore(s) == SelectSeq(s, LAMBDA c : c \notin NonAscii)

\* str.lower() on an ASCII character.
LowerChar(c) ==
    IF c \in Range(UpperCase)
    THEN LowerCase[CHOOSE k \in DOMAIN UpperCase : UpperCase[k] = c]
    ELSE c

Lower(s) == [k \in DOMAIN s |-> LowerChar(s[k])]

\* The regex class [a-z0-9].
IsSlugChar(c) == c \in Range(LowerCase) \cup Range(Digits)

\* re.sub(r"[^a-z0-9]+", "-", text): every maximal run of characters outside
\* [a-z0-9] becomes one hyphen.
RECURSIVE SubNonAlnum(_, _)
SubNonAlnum(s, inRun) ==
    IF s = <<>> THEN <<>>
    ELSE IF IsSlugChar(Head(s)) THEN <<Head(s)>> \o SubNonAlnum(Tail(s), FALSE)
    ELSE IF inRun THEN SubNonAlnum(Tail(s), TRUE)
    ELSE <<"-">> \o SubNonAlnum(Tail(s), TRUE)

\* str.strip("-")
RECURSIVE StripHyphens(_)
StripHyphens(s) ==
    IF s = <<>> THEN <<>>
    ELSE IF Head(s) = "-" THEN StripHyphens(Tail(s))
    ELSE IF s[Len(s)] = "-" THEN StripHyphens(SubSeq(s, 1, Len(s) - 1))
    ELSE s

\* A slugify that forgets the final strip("-").
slugifyNoStrip(t) == SubNonAlnum(Lower(AsciiIgnore(NFKD(t))), FALSE)

slugify(t) == StripHyphens(SubNonAlnum(Lower(AsciiIgnore(NFKD(t))), FALSE))

(***************************************************************************)
(* The specification of slugify: a title is drawn, slugified, and the slug *)
(* slugified again.                                                        *)
(***************************************************************************)
TitleMaxLen == 4

TitleChars == {"a", "B", "1", " ", "-", "_", "U+00E9", "U+4E2D"}

RECURSIVE SeqsUpTo(_, _)
SeqsUpTo(S, n) ==
    IF n = 0 THEN {<<>>}
    ELSE LET shorter == SeqsUpTo(S, n - 1)
         IN  shorter \cup {Append(s, c) : s \in shorter, c \in S}

InitSlug ==
    /\ pc = "slugify"
    /\ title \in SeqsUpTo(TitleChars, TitleMaxLen)
    /\ slug = None
    /\ slug2 = None
    /\ raw = None
    /\ parsed = None
    /\ text = None
    /\ primary = <<>>
    /\ idx = 0
    /\ chunk = None
    /\ sub = <<>>
    /\ chunks = <<>>
    /\ overrides = <<>>
    /\ poems = <<>>
    /\ plain = <<>>
    /\ mp3s = {}
    /\ poem = None
    /\ force = FALSE
    /\ existed = FALSE
    /\ attempt = 0
    /\ tts_calls = 0
    /\ waits = <<>>
    /\ tag_done = FALSE
    /\ invocations = 0

SlugifyTitle ==
    /\ pc = "slugify"
    /\ slug' = slugify(title)
    /\ pc' = "slugify_again"
    /\ UNCHANGED <<title, slug2, parseVars, splitVars, fetchVars, ttsVars>>

SlugifyAgain ==
    /\ pc = "slugify_again"
    /\ slug2' = slugify(slug)
    /\ pc' = "slugified"
    /\ UNCHANGED <<title, slug, parseVars, splitVars, fetchVars, ttsVars>>

NextSlug == SlugifyTitle \/ SlugifyAgain

SpecSlug == InitSlug /\ [][NextSlug]_vars

\* C4: slugify(title) holds only lowercase ASCII letters, digits and single
\* hyphens, has no leading or trailing hyphen, and slugifying it again gives
\* it back.
C4_SlugWellFormedIdempotent ==
    pc = "slugified" =>
        /\ \A k \in DOMAIN slug : IsSlugChar(slug[k]) \/ slug[k] = "-"
        /\ \A k \in 1..(Len(slug) - 1) : ~(slug[k] = "-" /\ slug[k+1] = "-")
        /\ slug /= <<>> => slug[1] /= "-" /\ slug[Len(slug)] /= "-"
        /\ slug2 = slug

\* A title with an upper-case letter, a run of separators and an accented
\* letter has been slugified twice, to a slug with a hyphen inside.
C4_Witness ==
    /\ pc = "slugified"
    /\ title = <<"B", " ", "U+00E9">>
    /\ slug = <<"b", "-", "e">>

(***************************************************************************)
(* Lines                                                                   *)
(***************************************************************************)
\* str.split("\n"): the lines of a text, at least one.
RECURSIVE SplitNL(_, _)
SplitNL(s, line) ==
    IF s = <<>> THEN <<line>>
    ELSE IF Head(s) = "\n" THEN <<line>> \o SplitNL(Tail(s), <<>>)
    ELSE SplitNL(Tail(s), Append(line, Head(s)))

\* "\n".join(lines)
RECURSIVE JoinNL(_)
JoinNL(lines) ==
    IF lines = <<>> THEN <<>>
    ELSE IF Len(lines) = 1 THEN lines[1]
    ELSE lines[1] \o <<"\n">> \o JoinNL(Tail(lines))

\* while lines and not lines[0].strip(): lines.pop(0)
RECURSIVE DropLeadingBlank(_)
DropLeadingBlank(lines) ==
    IF lines /= <<>> /\ IsBlank(lines[1]) THEN DropLeadingBlank(Tail(lines))
    ELSE lines

\* while lines and not lines[-1].strip(): lines.pop()
RECURSIVE DropTrailingBlank(_)
DropTrailingBlank(lines) ==
    IF lines /= <<>> /\ IsBlank(lines[Len(lines)])
    THEN DropTrailingBlank(SubSeq(lines, 1, Len(lines) - 1))
    ELSE lines

\* lines[k:] with k counted from 0, as Python slices
SliceFrom(lines, k) == SubSeq(lines, k + 1, Len(lines))

(***************************************************************************)
(* _is_known_author (parser.py)                                            *)
(***************************************************************************)
KNOWN_AUTHORS == {
      <<"P","a","u","l"," ","C","e","l","a","n">>,
      <<"M","a","r","y"," ","O","l","i","v","e","r">>,
      <<"A","m","i","r","i"," ","B","a","r","a","k","a">>,
      <<"R","a","b","i","a"," ","a","l","-","B","a","s","r","i">>,
      <<"C","o","n","s","t","a","n","t","i","n","e"," ","P","."," ","C","a","v","a","f","y">>,
      <<"I","n","g","e","b","o","r","g"," ","B","a","c","h","m","a","n","n">>,
      <<"Y","e","h","u","d","a"," ","A","m","i","c","h","a","i">>,
      <<"P","a","b","l","o"," ","N","e","r","u","d","a">>,
      <<"S","t","e","p","h","e","n"," ","D","o","b","y","n","s">>,
      <<"A","n","n","e"," ","S","e","x","t","o","n">>,
      <<"D","e","l","m","o","r","e"," ","S","c","h","w","a","r","t","z">> }

\* re.sub(r"\s*\(.*\)\s*$", "", text) on a stripped line: when the line ends
\* with ")" and has a "(" before it, everything from the white space in front
\* of the first "(" is removed.
StripParenthetical(s) ==
    IF s /= <<>> /\ s[Len(s)] = ")" /\ \E q \in 1..(Len(s) - 1) : s[q] = "("
    THEN LET q == CHOOSE k \in 1..(Len(s) - 1) :
                    s[k] = "(" /\ \A j \in 1..(k-1) : s[j] /= "("
             before == SubSeq(s, 1, q - 1)
         IN  IF IsBlank(before) THEN <<>>
             ELSE SubSeq(before, 1,
                    CHOOSE k \in DOMAIN before :
                       before[k] \notin WhiteSpace
                       /\ \A j \in (k+1)..Len(before) : before[j] \in WhiteSpace)
    ELSE s

is_known_author(t) == StripParenthetical(Strip(t)) \in KNOWN_AUTHORS

(***************************************************************************)
(* parse_poem_chunk (parser.py)                                            *)
(***************************************************************************)
\* re.match(r"^--\s*(.+)$", last_line) on a stripped line.
TrailingMatch(s) == Len(s) >= 3 /\ s[1] = "-" /\ s[2] = "-"

\* trailing_match.group(1).strip()
TrailingName(s) == Strip(SubSeq(s, 3, Len(s)))

\* re.match(r"^[Bb]y\s+(.+)$", second_line) on a stripped line.
ByMatch(s) == Len(s) >= 4 /\ s[1] \in {"B", "b"} /\ s[2] = "y" /\ s[3] \in WhiteSpace

\* by_match.group(1).strip()
ByName(s) == Strip(SubSeq(s, 3, Len(s)))

\* The first position from k on that holds no white space (Len(s) + 1 if none).
SkipWhiteSpace(s, k) ==
    IF \E j \in k..Len(s) : s[j] \notin WhiteSpace
    THEN CHOOSE j \in k..Len(s) :
            s[j] \notin WhiteSpace /\ \A m \in k..(j-1) : s[m] \in WhiteSpace
    ELSE Len(s) + 1

\* re.match(r"^[Tt]ranslated\s+[Bb]y\s+", line) on a stripped line.
TranslatedByMatch(s) ==
    /\ Len(s) >= 11
    /\ s[1] \in {"T", "t"}
    /\ SubSeq(s, 2, 10) = <<"r","a","n","s","l","a","t","e","d">>
    /\ s[11] \in WhiteSpace
    /\ LET j == SkipWhiteSpace(s, 11)
       IN  /\ j + 2 <= Len(s)
           /\ s[j] \in {"B", "b"}
           /\ s[j+1] = "y"
           /\ s[j+2] \in WhiteSpace

\* Lines 70-76: the chunk's lines without leading and trailing blank lines.
TrimmedLines(c) == DropTrailingBlank(DropLeadingBlank(SplitNL(c, <<>>)))

\* Lines 87-88: whether the last line is a "--Author" attribution.
HasTrailingAttribution(lines) == TrailingMatch(Strip(lines[Len(lines)]))

\* Lines 89-94: the lines the header is read from, the trailing attribution
\* and the blank lines before it removed.
HeaderLines(lines) ==
    IF HasTrailingAttribution(lines)
    THEN DropTrailingBlank(SubSeq(lines, 1, Len(lines) - 1))
    ELSE lines

\* A cascade that tries the reversed "Author, Title" convention first.
HeaderReversedFirst(lines) ==
    LET first_line == Strip(lines[1])
    IN  IF Len(lines) > 1
        THEN LET second_line == Strip(lines[2])
             IN  IF is_known_author(first_line) /\ ~is_known_author(second_line)
                 THEN [title |-> second_line, author |-> first_line, body_start |-> 2]
                 ELSE IF ByMatch(second_line)
                 THEN [title |-> first_line,
                       author |-> ByName(second_line),
                       body_start |->
                           IF Len(lines) > 2 /\ TranslatedByMatch(Strip(lines[3]))
                           THEN 3 ELSE 2]
                 ELSE IF is_known_author(second_line)
                 THEN [title |-> first_line, author |-> second_line, body_start |-> 2]
                 ELSE [title |-> first_line, author |-> None, body_start |-> 1]
        ELSE [title |-> first_line, author |-> None, body_start |-> 1]

\* Lines 99-130: the header cascade, giving title, header author and
\* body_start.
Header(lines) ==
    LET first_line == Strip(lines[1])
    IN  IF Len(lines) > 1
        THEN LET second_line == Strip(lines[2])
             IN  IF ByMatch(second_line)
                 THEN [title |-> first_line,
                       author |-> ByName(second_line),
                       body_start |->
                           IF Len(lines) > 2 /\ TranslatedByMatch(Strip(lines[3]))
                           THEN 3 ELSE 2]
                 ELSE IF is_known_author(second_line)
                 THEN [title |-> first_line, author |-> second_line, body_start |-> 2]
                 ELSE IF is_known_author(first_line) /\ ~is_known_author(second_line)
                 THEN [title |-> second_line, author |-> first_line, body_start |-> 2]
                 ELSE [title |-> first_line, author |-> None, body_start |-> 1]
        ELSE [title |-> first_line, author |-> None, body_start |-> 1]

\* Python's "not author": None and the empty string are both false.
Falsy(a) == a = None \/ a = <<>>

\* A parse in which the trailing attribution wins over the header's author.
parse_poem_chunkTrailingFirst(c) ==
    LET trimmed == TrimmedLines(c)
    IN  IF trimmed = <<>> THEN ReturnsNone
        ELSE LET trailing_author ==
                     IF HasTrailingAttribution(trimmed)
                     THEN TrailingName(Strip(trimmed[Len(trimmed)]))
                     ELSE None
                 lines == HeaderLines(trimmed)
             IN  IF lines = <<>> THEN RaisesIndexError
                 ELSE LET h == Header(lines)
                      IN  [title |-> h.title,
                           author |-> IF ~Falsy(trailing_author)
                                      THEN trailing_author ELSE h.author,
                           body |-> JoinNL(DropLeadingBlank(
                                        SliceFrom(lines, h.body_start)))]

parse_poem_chunk(c) ==
    LET trimmed == TrimmedLines(c)
    IN  IF trimmed = <<>> THEN ReturnsNone
        ELSE LET trailing_author ==
                     IF HasTrailingAttribution(trimmed)
                     THEN TrailingName(Strip(trimmed[Len(trimmed)]))
                     ELSE None
                 lines == HeaderLines(trimmed)
             IN  IF lines = <<>> THEN RaisesIndexError     \* lines[0]
                 ELSE LET h == Header(lines)
                      IN  [title |-> h.title,
                           author |-> IF Falsy(h.author) /\ ~Falsy(trailing_author)
                                      THEN trailing_author ELSE h.author,
                           body |-> JoinNL(DropLeadingBlank(
                                        SliceFrom(lines, h.body_start)))]

(***************************************************************************)
(* The specification of parse_poem_chunk: a chunk is drawn, as lines from  *)
(* a pool that holds each header convention, and parsed.                   *)
(***************************************************************************)
MaxChunkLines == 4

ChunkLinePool == {
    <<"T">>,
    <<" ","b"," ">>,
    <<"B","y"," ","X">>,
    <<"A","m","i","r","i"," ","B","a","r","a","k","a">>,
    <<"A","n","n","e"," ","S","e","x","t","o","n"," ","(","A",")">>,
    <<"T","r","a","n","s","l","a","t","e","d"," ","B","y"," ","Z">>,
    <<"-","-","J">>,
    <<"-","-">>,
    <<>> }

ChunkTexts == {JoinNL(ls) : ls \in SeqsUpTo(ChunkLinePool, MaxChunkLines)}

InitParse ==
    /\ pc = "parse"
    /\ raw \in ChunkTexts
    /\ parsed = None
    /\ title = None
    /\ slug = None
    /\ slug2 = None
    /\ text = None
    /\ primary = <<>>
    /\ idx = 0
    /\ chunk = None
    /\ sub = <<>>
    /\ chunks = <<>>
    /\ overrides = <<>>
    /\ poems = <<>>
    /\ plain = <<>>
    /\ mp3s = {}
    /\ poem = None
    /\ force = FALSE
    /\ existed = FALSE
    /\ attempt = 0
    /\ tts_calls = 0
    /\ waits = <<>>
    /\ tag_done = FALSE
    /\ invocations = 0

ParsePoemChunk ==
    /\ pc = "parse"
    /\ parsed' = parse_poem_chunk(raw)
    /\ pc' = "parsed"
    /\ UNCHANGED <<raw, slugVars, splitVars, fetchVars, ttsVars>>

NextParse == ParsePoemChunk

SpecParse == InitParse /\ [][NextParse]_vars

IsRecord(r) == DOMAIN r = {"title", "author", "body"}

AmiriBaraka == <<"A","m","i","r","i"," ","B","a","r","a","k","a">>

\* C1: parse_poem_chunk never raises; it returns None exactly for a chunk
\* that is empty after trimming and a record for every other chunk, a chunk
\* whose only non-blank line is a "--Author" line included.
C1_NeverRaises ==
    pc = "parsed" =>
        /\ parsed /= RaisesIndexError
        /\ parsed = ReturnsNone <=> IsBlank(raw)
        /\ ~IsBlank(raw) => IsRecord(parsed)

\* C2: every record parse_poem_chunk returns has a non-empty title.
C2_TitleNonEmpty ==
    (pc = "parsed" /\ IsRecord(parsed)) => parsed.title /= <<>>

\* C7: the header cascade is first-match-wins: (a) line 2 "By <name>" gives
\* title = line 1 and author = <name>, a following "Translated By" line being
\* skipped; (b) else line 2 a known author gives title = line 1, author =
\* line 2; (c) else line 1 a known author (and line 2 not) gives author =
\* line 1, title = line 2; (d) else title = line 1 and no header author.
C7_HeaderCascade ==
    (pc = "parsed" /\ IsRecord(parsed)) =>
        LET trimmed == TrimmedLines(raw)
            trailing == IF HasTrailingAttribution(trimmed)
                        THEN TrailingName(Strip(trimmed[Len(trimmed)]))
                        ELSE None
            L == HeaderLines(trimmed)
            L1 == Strip(L[1])
            L2 == Strip(L[2])
            bodyFrom(k) == JoinNL(DropLeadingBlank(SliceFrom(L, k)))
        IN  IF Len(L) = 1
            THEN parsed.title = L1 /\ parsed.author = trailing
            ELSE IF ByMatch(L2)
            THEN /\ parsed.title = L1
                 /\ parsed.author = ByName(L2)
                 /\ parsed.body = IF Len(L) > 2 /\ TranslatedByMatch(Strip(L[3]))
                                  THEN bodyFrom(3) ELSE bodyFrom(2)
            ELSE IF is_known_author(L2)
            THEN parsed.title = L1 /\ parsed.author = L2 /\ parsed.body = bodyFrom(2)
            ELSE IF is_known_author(L1)
            THEN parsed.title = L2 /\ parsed.author = L1 /\ parsed.body = bodyFrom(2)
            ELSE parsed.title = L1 /\ parsed.author = trailing /\ parsed.body = bodyFrom(1)

\* Line 1 is a known author and line 2 is "By X", followed by a "Translated
\* By" line: rule (a) has won, the translator is skipped.
C7_Witness ==
    /\ pc = "parsed"
    /\ raw = JoinNL(<<AmiriBaraka, <<"B","y"," ","X">>,
                      <<"T","r","a","n","s","l","a","t","e","d"," ","B","y"," ","Z">>,
                      <<" ","b"," ">> >>)
    /\ parsed = [title |-> AmiriBaraka, author |-> <<"X">>, body |-> <<" ","b"," ">>]

IsSuffix(a, b) == Len(a) <= Len(b) /\ SubSeq(b, Len(b) - Len(a) + 1, Len(b)) = a

\* C8: when the last non-blank line of a chunk is a "--<name>" attribution,
\* the returned body is taken from the lines before it and so never holds
\* that line, and the returned author is the header's author when the header
\* yields one, <name> otherwise.
C8_TrailingAttribution ==
    (pc = "parsed" /\ IsRecord(parsed) /\ HasTrailingAttribution(TrimmedLines(raw))) =>
        LET trimmed == TrimmedLines(raw)
            name == TrailingName(Strip(trimmed[Len(trimmed)]))
            before == DropTrailingBlank(SubSeq(trimmed, 1, Len(trimmed) - 1))
            h == Header(before)
        IN  /\ parsed.body = <<>> \/ IsSuffix(SplitNL(parsed.body, <<>>), before)
            /\ parsed.author = IF h.author /= None THEN h.author ELSE name

\* A chunk with a "By" header and a trailing attribution: the header's author
\* is returned and the body stops before the attribution.
C8_Witness ==
    /\ pc = "parsed"
    /\ raw = JoinNL(<<<<"T">>, <<"B","y"," ","X">>, <<" ","b"," ">>, <<"-","-","J">> >>)
    /\ parsed = [title |-> <<"T">>, author |-> <<"X">>, body |-> <<" ","b"," ">>]

\* A chunk with no header author and a trailing attribution: the attribution
\* is the author.
C8_WitnessFallback ==
    /\ pc = "parsed"
    /\ raw = JoinNL(<<<<"T">>, <<>>, <<" ","b"," ">>, <<"-","-","J">> >>)
    /\ parsed = [title |-> <<"T">>, author |-> <<"J">>, body |-> <<" ","b"," ">>]

(***************************************************************************)
(* split_poems and _split_on_trailing_author (parser.py)                   *)
(***************************************************************************)
\* Whether the regex \n_{4,}\n? matches at the head of s.
DelimiterAt(s) ==
    /\ Len(s) >= 5
    /\ s[1] = "\n"
    /\ \A j \in 2..5 : s[j] = "_"

\* The length of that match: the line break, every underscore that follows
\* and one more line break if there is one.
DelimiterLen(s) ==
    LET last == CHOOSE j \in 5..Len(s) :
                    /\ \A m \in 2..j : s[m] = "_"
                    /\ (j = Len(s) \/ s[j+1] /= "_")
    IN  IF last < Len(s) /\ s[last+1] = "\n" THEN last + 1 ELSE last

\* re.split(r"\n_{4,}\n?", text): the pieces between the matches, empty
\* pieces included.
RECURSIVE ReSplit(_, _)
ReSplit(s, piece) ==
    IF s = <<>> THEN <<piece>>
    ELSE IF DelimiterAt(s)
    THEN <<piece>> \o ReSplit(SubSeq(s, DelimiterLen(s) + 1, Len(s)), <<>>)
    ELSE ReSplit(Tail(s), Append(piece, Head(s)))

\* A filter that strips the pieces and keeps the empty ones.
StripKeepEmpty(pieces) == [j \in DOMAIN pieces |-> Strip(pieces[j])]

\* [c.strip() for c in chunks if c.strip()]
StripNonEmpty(pieces) ==
    LET stripped == [j \in DOMAIN pieces |-> Strip(pieces[j])]
    IN  SelectSeq(stripped, LAMBDA c : c /= <<>>)

\* The last position of the line that position q is on.
LineEnd(s, q) ==
    CHOOSE e \in q..Len(s) :
        /\ \A m \in q..e : s[m] /= "\n"
        /\ (e = Len(s) \/ s[e+1] = "\n")

\* Whether (\s*\n){2,} matches from position k: the white space from k on
\* holds two line breaks or more.
BlankLinesAt(s, k) ==
    Cardinality({m \in k..(SkipWhiteSpace(s, k) - 1) : s[m] = "\n"}) >= 2

\* Where that match ends: the last line break of the white space from k on.
BlankLinesEnd(s, k) ==
    CHOOSE m \in k..(SkipWhiteSpace(s, k) - 1) :
        /\ s[m] = "\n"
        /\ \A j \in (m+1)..(SkipWhiteSpace(s, k) - 1) : s[j] /= "\n"

\* Whether ^(--\s*.+)$\n(\s*\n){2,} (re.MULTILINE) matches from position p
\* with \s* ending before position q, where .+ starts: p starts a line and
\* holds "--", only white space lies between the hyphens and q, q holds a
\* character other than a line break, the line of q is followed by a line
\* break and by white space with two more.
AttributionMatch(s, p, q) ==
    /\ p = 1 \/ s[p-1] = "\n"
    /\ p + 2 <= q /\ q <= Len(s)
    /\ s[p] = "-" /\ s[p+1] = "-"
    /\ \A m \in (p+2)..(q-1) : s[m] \in WhiteSpace
    /\ s[q] /= "\n"
    /\ LET e == LineEnd(s, q)
       IN  /\ e + 1 <= Len(s)
           /\ s[e+1] = "\n"
           /\ BlankLinesAt(s, e + 2)

\* re.search(...): match.end() of the leftmost match, \s* taking as much as
\* lets the rest match; 0 when there is no match.
AttributionSearchEnd(s) ==
    IF \E p \in DOMAIN s, q \in DOMAIN s : AttributionMatch(s, p, q)
    THEN LET p == CHOOSE a \in DOMAIN s :
                    /\ \E q \in DOMAIN s : AttributionMatch(s, a, q)
                    /\ \A b \in 1..(a-1) : \A q \in DOMAIN s : ~AttributionMatch(s, b, q)
             q == CHOOSE a \in DOMAIN s :
                    /\ AttributionMatch(s, p, a)
                    /\ \A b \in (a+1)..Len(s) : ~AttributionMatch(s, p, b)
         IN  BlankLinesEnd(s, LineEnd(s, q) + 2)
    ELSE 0

RECURSIVE split_on_trailing_author(_)
split_on_trailing_author(c) ==
    LET split_pos == AttributionSearchEnd(c)
        first == Strip(SubSeq(c, 1, split_pos))
        rest == Strip(SubSeq(c, split_pos + 1, Len(c)))
    IN  IF split_pos > 0 /\ first /= <<>> /\ rest /= <<>>
        THEN <<first>> \o split_on_trailing_author(rest)
        ELSE <<c>>

\* for chunk in chunks: result.extend(_split_on_trailing_author(chunk))
RECURSIVE ExtendAll(_)
ExtendAll(cs) ==
    IF cs = <<>> THEN <<>>
    ELSE split_on_trailing_author(Head(cs)) \o ExtendAll(Tail(cs))

split_poems(t) == ExtendAll(StripNonEmpty(ReSplit(t, <<>>)))

(***************************************************************************)
(* The specification of split_poems: a document is drawn, as lines from a  *)
(* pool, split on the underscore lines, and each chunk is split again on   *)
(* its attribution lines.                                                  *)
(***************************************************************************)
MaxDocLines == 5

DocLinePool == {
    <<"a">>,
    <<"_","_","_","_">>,
    <<"_","_","_","_","b">>,
    <<"_","_","_">>,
    <<"-","-","J">>,
    <<"-","-">>,
    <<>> }

DocTexts == {JoinNL(ls) : ls \in SeqsUpTo(DocLinePool, MaxDocLines)}

InitSplit ==
    /\ pc = "split"
    /\ text \in DocTexts
    /\ primary = <<>>
    /\ idx = 0
    /\ chunk = None
    /\ sub = <<>>
    /\ chunks = <<>>
    /\ overrides = <<>>
    /\ poems = <<>>
    /\ plain = <<>>
    /\ mp3s = {}
    /\ poem = None
    /\ force = FALSE
    /\ existed = FALSE
    /\ attempt = 0
    /\ tts_calls = 0
    /\ waits = <<>>
    /\ tag_done = FALSE
    /\ invocations = 0
    /\ title = None
    /\ slug = None
    /\ slug2 = None
    /\ raw = None
    /\ parsed = None

\* Lines 33-34
PrimarySplit ==
    /\ pc = "split"
    /\ primary' = StripNonEmpty(ReSplit(text, <<>>))
    /\ idx' = 1
    /\ pc' = "post_process"
    /\ UNCHANGED <<text, chunk, sub, chunks, slugVars, parseVars, fetchVars, ttsVars>>

\* Lines 39-41, one turn of the loop
SecondarySplit ==
    /\ pc = "post_process"
    /\ idx <= Len(primary)
    /\ chunk' = primary[idx]
    /\ sub' = split_on_trailing_author(primary[idx])
    /\ chunks' = chunks \o split_on_trailing_author(primary[idx])
    /\ idx' = idx + 1
    /\ UNCHANGED <<pc, text, primary, slugVars, parseVars, fetchVars, ttsVars>>

\* Line 42
ReturnChunks ==
    /\ pc = "post_process"
    /\ idx > Len(primary)
    /\ pc' = "split_done"
    /\ UNCHANGED <<splitVars, slugVars, parseVars, fetchVars, ttsVars>>

NextSplit == PrimarySplit \/ SecondarySplit \/ ReturnChunks

SpecSplit == InitSplit /\ [][NextSplit]_vars

\* A line of four or more underscores and nothing else.
IsDelimiterLine(l) == Len(l) >= 4 /\ \A j \in DOMAIN l : l[j] = "_"

BeginsWithTwoHyphens(l) == Len(l) >= 2 /\ l[1] = "-" /\ l[2] = "-"

\* The texts between the delimiter lines of a document given as lines.
RECURSIVE SpansBetweenDelimiters(_, _)
SpansBetweenDelimiters(ls, span) ==
    IF ls = <<>> THEN <<JoinNL(span)>>
    ELSE IF IsDelimiterLine(Head(ls))
    THEN <<JoinNL(span)>> \o SpansBetweenDelimiters(Tail(ls), <<>>)
    ELSE SpansBetweenDelimiters(Tail(ls), Append(span, Head(ls)))

\* C5: for a document with no attribution line, split_poems breaks the text
\* exactly at the lines that consist of four or more underscores: the result
\* is, in document order, the trimmed non-empty texts between those lines.
C5_SplitsAtDelimiterLines ==
    LET ls == SplitNL(text, <<>>)
    IN  (pc = "split_done" /\ \A j \in DOMAIN ls : ~BeginsWithTwoHyphens(ls[j])) =>
            chunks = StripNonEmpty(SpansBetweenDelimiters(ls, <<>>))

\* The texts a chunk given as lines is cut into when it is cut after every
\* line that begins with two hyphens and is followed by two blank lines.
RECURSIVE SpansAfterAttributions(_, _)
SpansAfterAttributions(ls, span) ==
    IF ls = <<>> THEN <<JoinNL(span)>>
    ELSE IF /\ BeginsWithTwoHyphens(Head(ls))
            /\ Len(ls) >= 3
            /\ IsBlank(ls[2])
            /\ IsBlank(ls[3])
    THEN <<JoinNL(Append(span, Head(ls)))>> \o SpansAfterAttributions(Tail(ls), <<>>)
    ELSE SpansAfterAttributions(Tail(ls), Append(span, Head(ls)))

\* C9: _split_on_trailing_author cuts a chunk after a line if and only if the
\* line begins with two hyphens and is immediately followed by two or more
\* blank lines; k such lines give k+1 sub-chunks in document order.
C9_CutsAtAttributionLines ==
    (pc = "post_process" /\ chunk /= None) =>
        sub = StripNonEmpty(SpansAfterAttributions(SplitNL(chunk, <<>>), <<>>))

(***************************************************************************)
(* fetch_and_parse (parser.py)                                             *)
(***************************************************************************)
\* An override that also replaces the title when the slug is in the map.
EmitRecordOverridingTitle(i, p, ov) ==
    LET s == slugify(p.title)
    IN  [index |-> i + 1,
         title |-> IF s \in DOMAIN ov THEN ov[s] ELSE p.title,
         author |-> IF s \in DOMAIN ov THEN ov[s] ELSE p.author,
         slug |-> s,
         body |-> p.body]

\* Lines 196-210: the record appended for the parse result p of the chunk at
\* position i (from 0) under override map ov.
EmitRecord(i, p, ov) ==
    LET s == slugify(p.title)
    IN  [index |-> i + 1,
         title |-> p.title,
         author |-> IF s \in DOMAIN ov THEN ov[s] ELSE p.author,
         slug |-> s,
         body |-> p.body]

(***************************************************************************)
(* The specification of fetch_and_parse: a document and an override map    *)
(* are drawn; the document is split and the chunks are parsed in turn.     *)
(***************************************************************************)
MaxFetchLines == 5

FetchLinePool == {
    <<"T">>,
    <<"a">>,
    <<"B","y"," ","X">>,
    <<"-","-","J">>,
    <<"_","_","_","_">>,
    <<>> }

FetchTexts == {JoinNL(ls) : ls \in SeqsUpTo(FetchLinePool, MaxFetchLines)}

OverrideSlugs == {<<"t">>, <<"a">>}

OverrideAuthors == {<<"O">>}

OverrideMaps == UNION {[S -> OverrideAuthors] : S \in SUBSET OverrideSlugs}

Init ==
    /\ pc = "fetch"
    /\ text \in FetchTexts
    /\ overrides \in OverrideMaps
    /\ chunks = <<>>
    /\ idx = 0
    /\ poems = <<>>
    /\ plain = <<>>
    /\ mp3s = {}
    /\ poem = None
    /\ force = FALSE
    /\ existed = FALSE
    /\ attempt = 0
    /\ tts_calls = 0
    /\ waits = <<>>
    /\ tag_done = FALSE
    /\ invocations = 0
    /\ primary = <<>>
    /\ chunk = None
    /\ sub = <<>>
    /\ title = None
    /\ slug = None
    /\ slug2 = None
    /\ raw = None
    /\ parsed = None

\* Lines 186-190
FetchAndSplit ==
    /\ pc = "fetch"
    /\ chunks' = split_poems(text)
    /\ idx' = 1
    /\ pc' = "parse_chunks"
    /\ UNCHANGED <<text, primary, chunk, sub, slugVars, parseVars, fetchVars, ttsVars>>

\* Lines 191-210, one turn of the loop: enumerate's i is idx - 1.
ParseNextChunk ==
    /\ pc = "parse_chunks"
    /\ idx <= Len(chunks)
    /\ LET p == parse_poem_chunk(chunks[idx])
       IN  IF p = RaisesIndexError
           THEN pc' = "raised" /\ UNCHANGED <<idx, poems, plain>>
           ELSE IF p = ReturnsNone
           THEN idx' = idx + 1 /\ UNCHANGED <<pc, poems, plain>>
           ELSE /\ poems' = Append(poems, EmitRecord(idx - 1, p, overrides))
                /\ plain' = Append(plain, EmitRecord(idx - 1, p, <<>>))
                /\ idx' = idx + 1
                /\ pc' = pc
    /\ UNCHANGED <<text, chunks, overrides, primary, chunk, sub, slugVars, parseVars, ttsVars>>

\* Line 212
ReturnPoems ==
    /\ pc = "parse_chunks"
    /\ idx > Len(chunks)
    /\ pc' = "returned"
    /\ UNCHANGED <<splitVars, slugVars, parseVars, fetchVars, ttsVars>>

Next == FetchAndSplit \/ ParseNextChunk \/ ReturnPoems

Spec == Init /\ [][Next]_vars

\* C3: in the list fetch_and_parse returns the index values are exactly
\* 1, 2, ..., n in emission order.
C3_IndicesContiguous ==
    \A k \in DOMAIN poems : poems[k].index = k

\* A document whose split on underscore lines leaves an empty piece before a
\* poem has been parsed to the end, and two records were emitted.
C3_Witness ==
    /\ pc = "returned"
    /\ Len(poems) = 2
    /\ LET pieces == ReSplit(text, <<>>)
       IN  \E j, m \in DOMAIN pieces :
              j < m /\ Strip(pieces[j]) = <<>> /\ Strip(pieces[m]) /= <<>>

\* C6: the override changes only the author: an emitted record has the mapped
\* author if the map holds its slug and the parsed author otherwise, and its
\* title, body, slug and index are those of the run with an empty map.
C6_OverrideOnlyAuthor ==
    /\ Len(poems) = Len(plain)
    /\ \A k \in DOMAIN poems :
          /\ poems[k].title = plain[k].title
          /\ poems[k].body = plain[k].body
          /\ poems[k].slug = plain[k].slug
          /\ poems[k].index = plain[k].index
          /\ poems[k].author = IF poems[k].slug \in DOMAIN overrides
                               THEN overrides[poems[k].slug]
                               ELSE plain[k].author

\* A run has emitted one record whose slug is in the map, its parsed author
\* X replaced, and one whose slug is not, its author as parsed.
C6_Witness ==
    /\ pc = "returned"
    /\ \E j, k \in DOMAIN poems :
          /\ poems[j].slug \in DOMAIN overrides
          /\ poems[j].author = <<"O">>
          /\ plain[j].author = <<"X">>
          /\ poems[k].slug \notin DOMAIN overrides
          /\ poems[k].author = <<"J">>
          /\ plain[k].author = <<"J">>

(***************************************************************************)
(* generate_audio (tts.py)                                                 *)
(***************************************************************************)
TTS_MAX_RETRIES == 3

\* A backoff that doubles from one second.
BackoffFromOne(a) == 2 ^ a

\* Line 71: wait = 2 ** (attempt + 1)
Backoff(a) == 2 ^ (a + 1)

\* The poems generate_audio is called for, named by their slugs.
Slugs == {"s1", "s2"}

MaxInvocations == 2

InitTTS ==
    /\ pc = "idle"
    /\ mp3s \in SUBSET Slugs
    /\ poem = None
    /\ force = FALSE
    /\ existed = FALSE
    /\ attempt = 0
    /\ tts_calls = 0
    /\ waits = <<>>
    /\ tag_done = FALSE
    /\ invocations = 0
    /\ title = None
    /\ slug = None
    /\ slug2 = None
    /\ raw = None
    /\ parsed = None
    /\ text = None
    /\ primary = <<>>
    /\ idx = 0
    /\ chunk = None
    /\ sub = <<>>
    /\ chunks = <<>>
    /\ overrides = <<>>
    /\ poems = <<>>
    /\ plain = <<>>

others == <<slugVars, parseVars, splitVars, fetchVars>>

\* Line 42: generate_audio(poem, force) is called.
CallGenerateAudio(p, f) ==
    /\ pc \in {"idle", "returned", "raised"}
    /\ invocations < MaxInvocations
    /\ invocations' = invocations + 1
    /\ poem' = p
    /\ force' = f
    /\ existed' = (p \in mp3s)
    /\ attempt' = 0
    /\ tts_calls' = 0
    /\ waits' = <<>>
    /\ tag_done' = FALSE
    /\ pc' = "check_exists"
    /\ UNCHANGED <<mp3s, others>>

\* Lines 51-56
CheckExists ==
    /\ pc = "check_exists"
    /\ pc' = IF poem \in mp3s /\ ~force THEN "returned" ELSE "convert"
    /\ UNCHANGED <<ttsVars, others>>

\* Lines 58-68: the conversion succeeds, the file is written, the loop is left.
ConvertSucceeds ==
    /\ pc = "convert"
    /\ attempt < TTS_MAX_RETRIES
    /\ tts_calls' = tts_calls + 1
    /\ mp3s' = mp3s \cup {poem}
    /\ pc' = "tag"
    /\ UNCHANGED <<poem, force, existed, attempt, waits, tag_done, invocations, others>>

\* Lines 58-76: the conversion raises; the call sleeps and tries again, or
\* lets the exception of the last attempt through.
ConvertFails ==
    /\ pc = "convert"
    /\ attempt < TTS_MAX_RETRIES
    /\ tts_calls' = tts_calls + 1
    /\ IF attempt < TTS_MAX_RETRIES - 1
       THEN /\ waits' = Append(waits, Backoff(attempt))
            /\ attempt' = attempt + 1
            /\ pc' = "convert"
       ELSE /\ pc' = "raised"
            /\ UNCHANGED <<waits, attempt>>
    /\ UNCHANGED <<mp3s, poem, force, existed, tag_done, invocations, others>>

\* Lines 78-82
TagMp3 ==
    /\ pc = "tag"
    /\ tag_done' = TRUE
    /\ pc' = "returned"
    /\ UNCHANGED <<mp3s, poem, force, existed, attempt, tts_calls, waits, invocations, others>>

NextTTS ==
    \/ \E p \in Slugs, f \in BOOLEAN : CallGenerateAudio(p, f)
    \/ CheckExists
    \/ ConvertSucceeds
    \/ ConvertFails
    \/ TagMp3

SpecTTS == InitTTS /\ [][NextTTS]_vars

\* C10: generate_audio retries within a bound: it asks for at most
\* TTS_MAX_RETRIES conversions, none after the first success, sleeps 2^k
\* seconds after the k-th failure before the next attempt, lets the third
\* failure through without tagging the file, and asks for no conversion when
\* the MP3 exists and force is not set.
C10_BoundedRetry ==
    /\ tts_calls <= TTS_MAX_RETRIES
    /\ \A k \in DOMAIN waits : waits[k] = 2 ^ k
    /\ pc = "convert" => tts_calls = Len(waits)
    /\ pc = "tag" => tts_calls = Len(waits) + 1
    /\ pc = "raised" => tts_calls = TTS_MAX_RETRIES /\ waits = <<2, 4>> /\ ~tag_done
    /\ (pc = "returned" /\ existed /\ ~force) => tts_calls = 0 /\ ~tag_done
    /\ (pc = "returned" /\ ~(existed /\ ~force)) =>
            tts_calls = Len(waits) + 1 /\ tag_done

\* A call has succeeded at its third attempt, after sleeping 2 s and 4 s.
C10_Witness ==
    /\ pc = "returned"
    /\ tts_calls = 3
    /\ waits = <<2, 4>>
    /\ tag_done

\* A call has let the third failure through.
C10_WitnessRaised == pc = "raised" /\ tts_calls = 3

\* A call for a poem whose MP3 exists, force not set, has returned.
C10_WitnessSkipped == pc = "returned" /\ existed /\ ~force /\ tts_calls = 0

=============================================================================
